---- MODULE Spec2Model ----
(***************************************************************************)
(* A model of revenue_management_problem.py: the Monte Carlo evaluator     *)
(* RevenueManagementProblem.evaluate_solution, the samplers it draws from  *)
(* and random_solution.                                                    *)
(*                                                                         *)
(* Real numbers are fixed-point: a sample of random.random() is a number   *)
(* of quarters (u = k/4), an exponential sample is a number of thousandths.*)
(* The returned float is the exact fraction num/den.                       *)
(***************************************************************************)
EXTENDS Integers, Sequences, FiniteSets, TLC

VARIABLES
    self,        \* the problem object's attributes (set by __init__)
    pc,          \* where the caller / the running method is
    candidate,   \* the list passed to evaluate_solution (or returned by random_solution)
    purchase,    \* evaluate_solution's locals ...
    reserves,
    sum_profit,
    i,           \* trials started by the for loop of line 80
    X,
    Y,
    j,           \* periods done in the running trial
    remaining,
    units_sold,
    result,      \* the value evaluate_solution returned
    rng_pos,     \* outputs the random source has produced since it was seeded
    rng_start,   \* rng_pos when the running call began
    tape,        \* the outputs the seeded source is known to produce, in order
    from_random, \* candidate was produced by random_solution
    last         \* the caller's record of the previous evaluation

vars == <<self, pc, candidate, purchase, reserves, sum_profit, i, X, Y, j,
          remaining, units_sold, result, rng_pos, rng_start, tape,
          from_random, last>>

locals == <<purchase, reserves, sum_profit, i, X, Y, j, remaining, units_sold>>

----------------------------------------------------------------------------
(* Bounds of the model *)

\* candidate entries range over -MaxNeg .. MaxUnits
MaxUnits == 2

MaxNeg == 1

\* candidate lists have 0 .. MaxLen entries
MaxLen == 4

\* nb_simulations ranges over 1 .. MaxTrials
MaxTrials == 2

\* a call starts only while the source has produced at most MaxStart outputs
MaxStart == 4

\* length of the seeded source's known output
TapeLen == 8

\* purchases of the candidates evaluated against a seeded source
SeededUnits == 2

----------------------------------------------------------------------------
(* Program constants *)

\* int(1e2), line 51
NbSimulations == 100

\* random.randint(0, 100), line 105
RandMax == 100

\* return -1e9, line 74
Penalty == -1000000000

\* samples of random.random(), in quarters: 0, 1/4, 3/4
Uniform == {0, 1, 3}

\* the outputs a seeded source's tape is made of
SeededUniform == {0, 1}

SeedArgs == {42}

Min(a, b) == IF a <= b THEN a ELSE b

Max(a, b) == IF a >= b THEN a ELSE b

\* math.log(1 - u), u in quarters, in thousandths
Log1m(u) ==
    CASE u = 0 -> 0
      [] u = 1 -> -288
      [] u = 2 -> -693
      [] u = 3 -> -1386

\* exponential_sample: math.log(1 - u) / (-rate_param)
ExponentialSample(u, rate_param) == (0 - Log1m(u)) \div rate_param

\* gamma_sample delegates to exponential_sample with its scale as the rate
GammaSample(u, scale_param) == ExponentialSample(u, scale_param)

\* int(): truncation toward zero of num/den, den > 0
ToInt(num, den) == IF num >= 0 THEN num \div den ELSE 0 - ((0 - num) \div den)

\* the object __init__ builds
Constructed(seed) ==
    [nb_periods |-> 3,
     prices |-> <<100, 300, 400>>,
     mean_demands |-> <<50, 20, 30>>,
     purchase_price |-> 80,
     nb_simulations |-> NbSimulations,
     seed |-> seed]

\* the object with its trial count configured to n
Configured(seed, n) == [Constructed(seed) EXCEPT !.nb_simulations = n]

NoResult == [num |-> 0, den |-> 0]

NoCall == [candidate |-> <<>>, start |-> 0, sales |-> 0, result |-> NoResult]

\* variant: only too-short lists are rejected
WrongLengthShort(c) == Len(c) < self.nb_periods

\* len(candidate) != self.nb_periods
WrongLength(c) == Len(c) # self.nb_periods

\* variant: 'and' in place of 'or'
InfeasibleBoth(c) == c[2] > c[1] /\ c[3] > c[2]

\* candidate[1] > candidate[0] or candidate[2] > candidate[1]
Infeasible(c) == c[2] > c[1] \/ c[3] > c[2]

\* reserves = candidate[1:] + [0]
Reserves(c) == Tail(c) \o <<0>>

\* demand = int(self.mean_demands[j] * X * Y[j])
Demand(mean, x, y) == ToInt(mean * x * y, 1000 * 1000)

\* variant: the reservation is not held back
AvailableNoReserve(rem, res) == Max(rem, 0)

\* available = max(remaining - reserves[j], 0)
Available(rem, res) == Max(rem - res, 0)

\* variant: the demand is served whatever is available
UnitsSoldDemand(available, demand) == demand

\* variant: the unmet demand is taken for the sale
UnitsSoldUnmet(available, demand) == Max(demand - available, 0)

\* variant: max in place of min
UnitsSoldMax(available, demand) == Max(available, demand)

\* units_sold = min(available, demand)
UnitsSold(available, demand) == Min(available, demand)

\* mean_profit = sum_profit / n ; mean_revenue = mean_profit - purchase_price * purchase
MeanRevenue(sum, n, price, p) == [num |-> sum - price * p * n, den |-> n]

\* the float -1e9
PenaltyResult == [num |-> Penalty, den |-> 1]

IsPenalty(r) == r.den > 0 /\ r.num % r.den = 0 /\ r.num \div r.den = Penalty

\* the outputs the source can produce at position pos
DrawSet(pos) == IF pos < Len(tape) THEN {tape[pos + 1]} ELSE Uniform

\* candidate lists the caller may pass
Values == (0 - MaxNeg) .. MaxUnits

Candidates == UNION {[1 .. n -> Values] : n \in 0 .. MaxLen}

NoLocals ==
    /\ purchase = 0
    /\ reserves = <<>>
    /\ sum_profit = 0
    /\ i = 0
    /\ X = 0
    /\ Y = <<>>
    /\ j = 0
    /\ remaining = 0
    /\ units_sold = 0

ClearLocals ==
    /\ purchase' = 0
    /\ reserves' = <<>>
    /\ sum_profit' = 0
    /\ i' = 0
    /\ X' = 0
    /\ Y' = <<>>
    /\ j' = 0
    /\ remaining' = 0
    /\ units_sold' = 0

----------------------------------------------------------------------------
(* evaluate_solution *)

\* the caller invokes evaluate_solution(c)
Call(c) ==
    /\ rng_pos <= MaxStart
    /\ pc' = "check"
    /\ candidate' = c
    /\ result' = NoResult
    /\ rng_start' = rng_pos
    /\ ClearLocals
    /\ UNCHANGED <<self, rng_pos, tape, last>>

EvaluateCall ==
    /\ pc = "idle"
    /\ \E c \in Candidates : Call(c)
    /\ from_random' = FALSE

\* the caller evaluates the list random_solution gave it
EvaluateSolution ==
    /\ pc = "solution"
    /\ \A k \in 1 .. Len(candidate) : candidate[k] <= MaxUnits
    /\ Call(candidate)
    /\ UNCHANGED from_random

\* lines 65-66
RaiseInvalid ==
    /\ pc = "check"
    /\ WrongLength(candidate)
    /\ pc' = "raised"
    /\ UNCHANGED <<self, candidate, locals, result, rng_pos, rng_start, tape,
                   from_random, last>>

\* lines 68-74
ReturnPenalty ==
    /\ pc = "check"
    /\ ~WrongLength(candidate)
    /\ Infeasible(candidate)
    /\ purchase' = candidate[1]
    /\ reserves' = Reserves(candidate)
    /\ result' = PenaltyResult
    /\ pc' = "returned"
    /\ UNCHANGED <<self, candidate, sum_profit, i, X, Y, j, remaining,
                   units_sold, rng_pos, rng_start, tape, from_random, last>>

\* variant: sum_profit carries on from the previous evaluation
EnterLoopKeepsSum ==
    /\ pc = "check"
    /\ Len(candidate) = self.nb_periods
    /\ ~(candidate[2] > candidate[1] \/ candidate[3] > candidate[2])
    /\ purchase' = candidate[1]
    /\ reserves' = Tail(candidate) \o <<0>>
    /\ sum_profit' = last.sales
    /\ pc' = "loop"
    /\ UNCHANGED <<self, candidate, i, X, Y, j, remaining, units_sold, result,
                   rng_pos, rng_start, tape, from_random, last>>

\* variant: line 77 active, random.seed(self.seed) at every evaluation
EnterLoopReseeds ==
    /\ pc = "check"
    /\ Len(candidate) = self.nb_periods
    /\ ~(candidate[2] > candidate[1] \/ candidate[3] > candidate[2])
    /\ purchase' = candidate[1]
    /\ reserves' = Tail(candidate) \o <<0>>
    /\ sum_profit' = 0
    /\ rng_pos' = 0
    /\ pc' = "loop"
    /\ UNCHANGED <<self, candidate, i, X, Y, j, remaining, units_sold, result,
                   rng_start, tape, from_random, last>>

\* lines 68-78
EnterLoop ==
    /\ pc = "check"
    /\ ~WrongLength(candidate)
    /\ ~Infeasible(candidate)
    /\ purchase' = candidate[1]
    /\ reserves' = Reserves(candidate)
    /\ sum_profit' = 0
    /\ pc' = "loop"
    /\ UNCHANGED <<self, candidate, i, X, Y, j, remaining, units_sold, result,
                   rng_pos, rng_start, tape, from_random, last>>

\* lines 80-82: the next trial starts, X = gamma_sample()
SampleX ==
    /\ pc = "loop"
    /\ i < self.nb_simulations
    /\ i' = i + 1
    /\ \E u \in DrawSet(rng_pos) : X' = GammaSample(u, 1)
    /\ rng_pos' = rng_pos + 1
    /\ pc' = "sampleY"
    /\ UNCHANGED <<self, candidate, purchase, reserves, sum_profit, Y, j,
                   remaining, units_sold, result, rng_start, tape,
                   from_random, last>>

\* lines 84-85: Y = [exponential_sample() for _ in range(nb_periods)], remaining = purchase
SampleY ==
    /\ pc = "sampleY"
    /\ \E u1 \in DrawSet(rng_pos), u2 \in DrawSet(rng_pos + 1),
          u3 \in DrawSet(rng_pos + 2) :
          Y' = <<ExponentialSample(u1, 1), ExponentialSample(u2, 1),
                 ExponentialSample(u3, 1)>>
    /\ rng_pos' = rng_pos + self.nb_periods
    /\ remaining' = purchase
    /\ j' = 0
    /\ pc' = "period"
    /\ UNCHANGED <<self, candidate, purchase, reserves, sum_profit, i, X,
                   units_sold, result, rng_start, tape, from_random, last>>

\* lines 86-93: one period of the running trial
Period ==
    /\ pc = "period"
    /\ j < self.nb_periods
    /\ LET demand == Demand(self.mean_demands[j + 1], X, Y[j + 1])
           available == Available(remaining, reserves[j + 1])
           sold == UnitsSold(available, demand)
       IN  /\ units_sold' = sold
           /\ remaining' = remaining - sold
           /\ sum_profit' = sum_profit + self.prices[j + 1] * sold
    /\ j' = j + 1
    /\ pc' = IF j + 1 < self.nb_periods THEN "period" ELSE "loop"
    /\ UNCHANGED <<self, candidate, purchase, reserves, i, X, Y, result,
                   rng_pos, rng_start, tape, from_random, last>>

\* lines 95-97
Return ==
    /\ pc = "loop"
    /\ ~(i < self.nb_simulations)
    /\ result' = MeanRevenue(sum_profit, self.nb_simulations,
                             self.purchase_price, purchase)
    /\ pc' = "returned"
    /\ UNCHANGED <<self, candidate, locals, rng_pos, rng_start, tape,
                   from_random, last>>

----------------------------------------------------------------------------
(* random_solution *)

\* line 105
RandPurchase ==
    /\ pc = "idle"
    /\ rng_pos <= MaxStart
    /\ \E p \in 0 .. RandMax : candidate' = <<p>>
    /\ rng_pos' = rng_pos + 1
    /\ rng_start' = rng_pos
    /\ pc' = "rand2"
    /\ from_random' = TRUE
    /\ UNCHANGED <<self, locals, result, tape, last>>

\* line 106
RandReserve2 ==
    /\ pc = "rand2"
    /\ \E r \in 0 .. candidate[1] : candidate' = Append(candidate, r)
    /\ rng_pos' = rng_pos + 1
    /\ pc' = "rand3"
    /\ UNCHANGED <<self, locals, result, rng_start, tape, from_random, last>>

\* variant: reserve_p3 sampled below purchase instead of reserve_p2
RandReserve3FromPurchase ==
    /\ pc = "rand3"
    /\ \E r \in 0 .. candidate[1] : candidate' = Append(candidate, r)
    /\ rng_pos' = rng_pos + 1
    /\ pc' = "solution"
    /\ UNCHANGED <<self, locals, result, rng_start, tape, from_random, last>>

\* lines 107-108
RandReserve3 ==
    /\ pc = "rand3"
    /\ \E r \in 0 .. candidate[2] : candidate' = Append(candidate, r)
    /\ rng_pos' = rng_pos + 1
    /\ pc' = "solution"
    /\ UNCHANGED <<self, locals, result, rng_start, tape, from_random, last>>

----------------------------------------------------------------------------
(* the caller *)

\* the caller is done with what the call gave it
Release ==
    /\ pc \in {"returned", "raised", "solution"}
    /\ pc' = "idle"
    /\ candidate' = <<>>
    /\ result' = NoResult
    /\ from_random' = FALSE
    /\ rng_start' = 0
    /\ ClearLocals
    /\ UNCHANGED <<self, rng_pos, tape, last>>

\* the caller keeps the outcome of the evaluation for a later comparison
Remember ==
    /\ pc = "returned"
    /\ last = NoCall
    /\ last' = [candidate |-> candidate, start |-> rng_start,
                sales |-> sum_profit, result |-> result]
    /\ pc' = "idle"
    /\ candidate' = <<>>
    /\ result' = NoResult
    /\ from_random' = FALSE
    /\ rng_start' = 0
    /\ ClearLocals
    /\ UNCHANGED <<self, rng_pos, tape>>

\* random.seed(problem.seed): the source is back in the seed's state
Seed ==
    /\ pc = "idle"
    /\ rng_pos # 0
    /\ rng_pos' = 0
    /\ UNCHANGED <<self, pc, candidate, locals, result, rng_start, tape,
                   from_random, last>>

----------------------------------------------------------------------------

InitWith(obj, t) ==
    /\ self = obj
    /\ tape = t
    /\ pc = "idle"
    /\ candidate = <<>>
    /\ NoLocals
    /\ result = NoResult
    /\ rng_pos = 0
    /\ rng_start = 0
    /\ from_random = FALSE
    /\ last = NoCall

Init ==
    \E seed \in SeedArgs, n \in 1 .. MaxTrials :
        InitWith(Configured(seed, n), <<>>)

Steps ==
    \/ RaiseInvalid
    \/ ReturnPenalty
    \/ EnterLoop
    \/ SampleX
    \/ SampleY
    \/ Period
    \/ Return

Next ==
    \/ EvaluateCall
    \/ EvaluateSolution
    \/ Steps
    \/ RandPurchase
    \/ RandReserve2
    \/ RandReserve3
    \/ Release
    \/ Seed

Spec == Init /\ [][Next]_vars

----------------------------------------------------------------------------
(* The source seeded by the caller: its first TapeLen outputs are fixed by  *)
(* the seed. The caller evaluates a candidate, keeps the outcome, and       *)
(* evaluates a candidate with the same reservations, with or without        *)
(* seeding the source again in between.                                     *)

SeededCandidates == UNION {[1 .. n -> 0 .. SeededUnits] : n \in 2 .. 3}

\* the call's draws all lie on the tape
OnTape == rng_pos + 4 * self.nb_simulations <= Len(tape)

FirstCall ==
    /\ pc = "idle"
    /\ last = NoCall
    /\ OnTape
    /\ \E c \in SeededCandidates : Call(c)
    /\ UNCHANGED from_random

SecondCall ==
    /\ pc = "idle"
    /\ last # NoCall
    /\ OnTape
    /\ \E p \in 0 .. SeededUnits : Call([last.candidate EXCEPT ![1] = p])
    /\ UNCHANGED from_random

InitSeeded ==
    \E seed \in SeedArgs, n \in 1 .. MaxTrials,
       t \in [1 .. TapeLen -> SeededUniform] :
        InitWith(Configured(seed, n), t)

NextSeeded ==
    \/ FirstCall
    \/ SecondCall
    \/ Steps
    \/ Remember
    \/ Seed

SpecSeeded == InitSeeded /\ [][NextSeeded]_vars

----------------------------------------------------------------------------
(* The object as __init__ leaves it, evaluated on the candidates that buy   *)
(* nothing (all of its trials can then be enumerated).                      *)

DefaultCandidates ==
    {c \in Candidates : \A k \in 1 .. Len(c) : c[k] \in 0 .. (IF k = 1 THEN 0 ELSE 1)}

DefaultCall ==
    /\ pc = "idle"
    /\ \E c \in DefaultCandidates : Call(c)
    /\ UNCHANGED from_random

InitDefault == \E seed \in SeedArgs : InitWith(Constructed(seed), <<>>)

NextDefault ==
    \/ DefaultCall
    \/ Steps
    \/ Release

SpecDefault == InitDefault /\ [][NextDefault]_vars

----------------------------------------------------------------------------
(* Properties *)

\* the running or finished call is one of evaluate_solution
InCall == pc \in {"check", "loop", "sampleY", "period"}

PastCheck == pc \in {"loop", "sampleY", "period", "returned", "raised"}

\* reserve2 > purchase or reserve3 > reserve2
OrderViolated(c) == c[2] > c[1] \/ c[3] > c[2]

NonNegative(c) == \A k \in 1 .. Len(c) : c[k] >= 0 /\ c[k] <= RandMax

FeasibleTriple(c) == Len(c) = 3 /\ ~OrderViolated(c)

\* C1: a 3-element candidate with reserve2 > purchase or reserve3 > reserve2
\* returns exactly the penalty -1e9, without starting a trial and without
\* consuming a draw of the random source.
C1_InfeasiblePenalty ==
    (PastCheck /\ Len(candidate) = 3 /\ OrderViolated(candidate))
        => /\ pc = "returned"
           /\ result = [num |-> -1000000000, den |-> 1]
           /\ i = 0
           /\ rng_pos = rng_start

C1_Witness ==
    /\ pc = "returned"
    /\ Len(candidate) = 3
    /\ candidate[2] > candidate[1]
    /\ candidate[3] <= candidate[2]
    /\ rng_start > 0
    /\ IsPenalty(result)

\* C2: a candidate whose length is not 3 ends in the invalid-input error:
\* no penalty and no number is returned, no trial runs, no draw is consumed.
C2_WrongLengthRaises ==
    (PastCheck /\ Len(candidate) # 3)
        => /\ pc = "raised"
           /\ result = NoResult
           /\ i = 0
           /\ rng_pos = rng_start

C2_Witness ==
    /\ pc = "raised"
    /\ Len(candidate) = 4
    /\ candidate[2] > candidate[1]
    /\ rng_start > 0

\* C3 as stated: every candidate with purchase = 0 that passes the
\* feasibility check sells no unit and returns exactly 0.
C3_Original ==
    (PastCheck /\ FeasibleTriple(candidate) /\ candidate[1] = 0)
        => /\ units_sold = 0
           /\ sum_profit = 0
           /\ (pc = "returned" => result.num = 0)

\* C3 amended: every candidate of non-negative integers with purchase = 0
\* that passes the feasibility check sells no unit in any period of any
\* trial and returns exactly 0, whatever the sampled demands.
C3_ZeroPurchase ==
    (PastCheck /\ FeasibleTriple(candidate) /\ candidate[1] = 0
               /\ NonNegative(candidate))
        => /\ units_sold = 0
           /\ sum_profit = 0
           /\ (pc = "returned" =>
                  result = [num |-> 0, den |-> self.nb_simulations])

C3_Witness ==
    /\ pc = "returned"
    /\ candidate = <<0, 0, 0>>
    /\ i = self.nb_simulations
    /\ i > 1
    /\ Demand(self.mean_demands[1], X, Y[1]) > 0
    /\ result.num = 0
    /\ result.den > 0

\* C4: in a trial on a feasible candidate of non-negative integers, the
\* units sold in a period never exceed the inventory remaining when the
\* period begins, and remaining is never negative.
C4_SoldWithinRemaining ==
    [][(pc = "period" /\ FeasibleTriple(candidate) /\ NonNegative(candidate))
          => /\ units_sold' <= remaining
             /\ units_sold' >= 0
             /\ remaining >= 0
             /\ remaining' >= 0]_vars

C4_Witness ==
    /\ pc = "period"
    /\ FeasibleTriple(candidate)
    /\ NonNegative(candidate)
    /\ j = 2
    /\ units_sold = 1
    /\ remaining = 1
    /\ candidate[3] = 0

\* C6: random_solution always returns 0 <= reserve3 <= reserve2 <= purchase
\* <= 100, and evaluate_solution never answers it with the penalty.
C6_RandomFeasible ==
    /\ pc = "solution"
         => /\ Len(candidate) = 3
            /\ 0 <= candidate[3]
            /\ candidate[3] <= candidate[2]
            /\ candidate[2] <= candidate[1]
            /\ candidate[1] <= 100
            /\ ~WrongLength(candidate)
            /\ ~Infeasible(candidate)
    /\ (from_random /\ PastCheck)
         => /\ pc # "raised"
            /\ ~IsPenalty(result)

C6_Witness ==
    /\ from_random
    /\ pc = "returned"
    /\ candidate[3] = candidate[1]
    /\ candidate[1] > 0
    /\ result.den > 0

\* C10: in every trial on a feasible candidate of non-negative integers the
\* inventory left after period 1 is at least reserve2, the inventory left
\* after period 2 is at least reserve3, and the units sold over the three
\* periods do not exceed purchase.
C10_ReservationsHonoured ==
    (pc \in {"period", "loop", "returned"} /\ FeasibleTriple(candidate)
        /\ NonNegative(candidate))
        => /\ (j = 1 => remaining >= candidate[2])
           /\ (j = 2 => remaining >= candidate[3])
           /\ (j >= 1 => candidate[1] - remaining <= candidate[1])
           /\ (j >= 1 => candidate[1] - remaining >= units_sold)

C10_Witness ==
    /\ pc = "period"
    /\ j = 1
    /\ candidate = <<2, 1, 0>>
    /\ remaining = 1
    /\ Demand(self.mean_demands[1], X, Y[1]) > 1

\* C5: two evaluations of the same candidate with the same trial count,
\* each begun with the random source in the same state, return equal
\* results.
C5_Reproducible ==
    (pc = "returned" /\ last # NoCall /\ last.candidate = candidate
        /\ last.start = rng_start)
        => result = last.result

C5_Witness ==
    /\ pc = "returned"
    /\ last # NoCall
    /\ last.candidate = candidate
    /\ last.start = rng_start
    /\ self.nb_simulations > 1
    /\ sum_profit > 0
    /\ result = last.result

\* C7: of two feasible candidates that differ only in purchase, evaluated
\* on the same sampled demands, the one with the larger purchase has sales
\* revenue (sum of prices[j] * units_sold) at least as large.
C7_SalesMonotone ==
    (pc = "returned" /\ last # NoCall /\ last.start = rng_start
        /\ FeasibleTriple(candidate) /\ FeasibleTriple(last.candidate)
        /\ candidate[2] = last.candidate[2] /\ candidate[3] = last.candidate[3])
        => /\ (last.candidate[1] <= candidate[1] => last.sales <= sum_profit)
           /\ (candidate[1] <= last.candidate[1] => sum_profit <= last.sales)

\* larger purchase, larger sales revenue, smaller net revenue
C7_Witness ==
    /\ pc = "returned"
    /\ last # NoCall
    /\ last.start = rng_start
    /\ FeasibleTriple(candidate)
    /\ FeasibleTriple(last.candidate)
    /\ last.candidate[1] < candidate[1]
    /\ last.sales < sum_profit
    /\ result.den = last.result.den
    /\ result.num < last.result.num

\* C8 as stated: a newly constructed problem evaluates a feasible candidate
\* with exactly 1,000,000 trials.
C8_DefaultMillionTrials ==
    (pc = "returned" /\ FeasibleTriple(candidate)) => i = 1000000

\* C9: evaluating a feasible candidate only advances the random source, one
\* output for X and then one for each of Y[0], Y[1], Y[2] in every trial,
\* 4 * nb_simulations in all; the source is never set back, the candidate,
\* the object's attributes and the caller's data stay as they are, and the
\* call returns after exactly nb_simulations trials of 3 periods.
C9_StepFrame ==
    /\ InCall
         => /\ self' = self
            /\ candidate' = candidate
            /\ tape' = tape
            /\ last' = last
            /\ from_random' = from_random
            /\ rng_start' = rng_start
            /\ rng_pos' >= rng_pos
    /\ (pc = "loop" /\ pc' = "returned")
         => /\ i' = self.nb_simulations
            /\ j' = 3
            /\ rng_pos' = rng_start + 4 * self.nb_simulations
    /\ (pc = "period" /\ pc' = "loop") => j' = 3
    /\ (pc = "sampleY" /\ pc' = "period")
         => LET base == rng_start + 4 * (i - 1)
            IN  /\ rng_pos' = base + 4
                /\ X' = GammaSample(tape[base + 1], 1)
                /\ Y' = <<ExponentialSample(tape[base + 2], 1),
                          ExponentialSample(tape[base + 3], 1),
                          ExponentialSample(tape[base + 4], 1)>>

C9_OnlyDraws == [][C9_StepFrame]_vars

C9_Witness ==
    /\ pc = "returned"
    /\ FeasibleTriple(candidate)
    /\ rng_start = 4
    /\ rng_pos = 8
    /\ X # Y[1]
    /\ Y[1] # Y[2]
    /\ Y[2] # Y[3]

====
